---- MODULE Spec2Model ----
(***************************************************************************)
(* Model of the talkcody LLM gateway pieces held in                        *)
(*   src-tauri/src/llm/image_generation/volcengine.rs                      *)
(*   src-tauri/src/llm/providers/kimi_coding_provider.rs                   *)
(*                                                                         *)
(* Four specifications share the variables:                                *)
(*   Spec        one call of VolcengineImageClient::generate, one action   *)
(*               per step between its failure points / suspension points;  *)
(*   SpecKimi    KimiCodingProvider::get_credentials and                   *)
(*               add_provider_headers over drawn stores and header maps;   *)
(*   SpecStream  interleaved parse_protocol_stream_event calls on several  *)
(*               streams, each with its own StreamParseState;              *)
(*   SpecSplit   one payload fed in two chunks and in one.                 *)
(* OpenAiProtocol::parse_stream_event is not among the sources; it is      *)
(* modelled from the design text (buffer, terminal flag, at most one       *)
(* event per call).                                                        *)
(*                                                                         *)
(* Encodings: Option<T> is a sequence, <<>> for None and <<v>> for Some(v);*)
(* Result<T, String> is [ok, val, err]; text is a sequence of characters   *)
(* where the code inspects characters, a string otherwise.                 *)
(***************************************************************************)
EXTENDS Integers, Sequences, FiniteSets, TLC

VARIABLES
    \* ---- VolcengineImageClient::generate (one call) ----
    pc,           \* position in generate
    request,      \* the ImageGenerationRequest argument
    credentials,  \* Option of what api_keys.get_credentials returned
    api_key,      \* local api_key
    base_url,     \* Option of what resolve_base_url_with_fallback returned
    url,          \* local url
    client,       \* Option of the built reqwest client
    header_map,   \* local header_map
    response,     \* Option of the vendor's reply
    result,       \* Option of the value generate returned
    steps,        \* the steps run so far, in order
    sent,         \* the HTTP requests put on the wire, in order
    \* ---- KimiCodingProvider ----
    provider,     \* the KimiCodingProvider value (base.config, protocol)
    store,        \* settings store: credential name -> Option<String>
    lookup,       \* Option of what get_setting returned to get_credentials
    creds,        \* Option of what get_credentials returned
    headers0,     \* header map handed to add_provider_headers
    headers,      \* the caller's header map
    hdrResult,    \* Option of what add_provider_headers returned
    \* ---- stream parsing ----
    sstate,       \* stream -> its StreamParseState
    sevents,      \* stream -> StreamEvents yielded so far
    serrs,        \* stream -> errors its parse calls returned so far
    fed,          \* the parse calls made so far: [stream, chunk], in order
    payload,      \* SpecSplit: the payload being fed
    cut           \* SpecSplit: where it is split

genVars == <<pc, request, credentials, api_key, base_url, url, client,
             header_map, response, result, steps, sent>>
kimiVars == <<store, lookup, creds, headers0, headers, hdrResult>>
streamVars == <<sstate, sevents, serrs, fed, payload, cut>>
vars == <<genVars, provider, kimiVars, streamVars>>

None == <<>>
Some(v) == <<v>>

Ok(v) == [ok |-> TRUE, val |-> Some(v), err |-> None]

\* An error String, kept as the pieces format! puts together.
ErrMsg(msg, cause, status, body) ==
    [msg |-> msg, cause |-> cause, status |-> status, body |-> body]

Err(e) == [ok |-> FALSE, val |-> None, err |-> Some(e)]

\* ------------------------------------------------------------------------
\* Bounds
\* ------------------------------------------------------------------------
MaxItems == 2
MaxFed == 4
MaxBody == 2

\* ------------------------------------------------------------------------
\* VolcengineImageClient::generate
\* ------------------------------------------------------------------------

\* Header text is kept as the bytes of its UTF-8 encoding.
\* HeaderValue::from_str accepts a byte b when
\* b >= 32 && b != 127 || b == b'\t'.
ValidHeaderByte(b) == (b >= 32 /\ b # 127) \/ b = 9

\* Tokens the key manager may hand out: "sk1", "s\tk" (TAB), "s\u{e9}"
\* (two bytes), and tokens holding LF, CR, FF, NUL, ESC and DEL.
Tokens == {<<115, 107, 49>>, <<115, 9, 107>>, <<115, 195, 169>>,
           <<115, 10>>, <<115, 13>>, <<115, 12>>, <<115, 0>>, <<115, 27>>,
           <<115, 127>>}

\* Base URLs the resolver may return.
BaseUrls == {<<"h", "/", "v", "3">>, <<"h", "/", "v", "3", "/">>,
             <<"h", "/", "v", "3", "/", "/">>}

Requests ==
    {[prompt |-> "a", size |-> None, quality |-> None, n |-> None,
      response_format |-> None],
     [prompt |-> "a", size |-> Some("1024x1024"), quality |-> Some("hd"),
      n |-> Some(2), response_format |-> Some("b64_json")],
     [prompt |-> "b", size |-> None, quality |-> None, n |-> Some(1),
      response_format |-> Some("url")]}

Model == "m1"

\* What ApiKeyManager::get_credentials may return.
CredentialOutcomes ==
    {Err(ErrMsg("credential store error", "", 0, None)),
     Ok([variant |-> "None", token |-> <<>>])}
    \cup {Ok([variant |-> "Token", token |-> t]) : t \in Tokens}

\* What BaseProvider::resolve_base_url_with_fallback may return.
BaseUrlOutcomes ==
    {Err(ErrMsg("no usable base URL", "", 0, None))}
    \cup {Ok(u) : u \in BaseUrls}

\* str::trim_end_matches('/')
RECURSIVE trim_end_matches(_)
trim_end_matches(s) ==
    IF s # <<>> /\ s[Len(s)] = "/"
    THEN trim_end_matches(SubSeq(s, 1, Len(s) - 1))
    ELSE s

\* format!("{}/images/generations", base_url.trim_end_matches('/'))
FormatUrl(resolved) ==
    trim_end_matches(resolved) \o <<"/", "images/generations">>

\* The serialized VolcengineImageRequest: None fields are skipped.
VolcengineImageRequest(model, req) ==
    LET opt == {f \in {"size", "quality", "n", "response_format"} :
                   req[f] # None}
    IN  [f \in {"model", "prompt"} \cup opt |->
            CASE f = "model" -> model
              [] f = "prompt" -> req.prompt
              [] OTHER -> req[f][1]]

ClientTimeoutSecs == 120

\* reqwest::header::HeaderValue::from_str
ValidHeaderValue(v) == \A i \in 1..Len(v) : ValidHeaderByte(v[i])

\* "application/json"
ApplicationJson ==
    <<97, 112, 112, 108, 105, 99, 97, 116, 105, 111, 110, 47, 106, 115, 111,
      110>>

\* "Bearer "
BearerPrefix == <<66, 101, 97, 114, 101, 114, 32>>

\* The HashMap built at lines 84-86.
RequestHeaders(key) ==
    [k \in {"Content-Type", "Authorization"} |->
        IF k = "Content-Type" THEN ApplicationJson
        ELSE BearerPrefix \o key]

\* ---- vendor replies ----
Absent == [t |-> "absent", v |-> ""]
Null == [t |-> "null", v |-> ""]
Str(s) == [t |-> "str", v |-> s]
Num == [t |-> "num", v |-> "7"]

\* JSON objects a reply's data list may hold.
Items ==
    {[b64_json |-> Str("abc123"), url |-> Absent,
      revised_prompt |-> Str("refined prompt")],
     [b64_json |-> Absent, url |-> Str("https://example.com/image.png"),
      revised_prompt |-> Absent],
     [b64_json |-> Null, url |-> Str("https://x/y.png"),
      revised_prompt |-> Null],
     [b64_json |-> Num, url |-> Absent, revised_prompt |-> Absent]}

ItemLists == UNION {[1..k -> Items] : k \in 0..MaxItems}

TextBody(s) == [json |-> FALSE, text |-> s, data |-> <<>>]
JsonBody(d) == [json |-> TRUE, text |-> "", data |-> d]

Bodies == {TextBody("rate limited"), TextBody("")}
          \cup {JsonBody(d) : d \in ItemLists}

Statuses == {200, 201, 404, 500}

\* What send() may return: a transport error, or a reply whose body may or
\* may not be readable to its end.
Responses == [status : Statuses, body : Bodies, readable : BOOLEAN]

\* StatusCode::is_success
is_success(status) == status >= 200 /\ status <= 299

\* serde: an Option<String> field.
FieldOk(f) == f.t \in {"absent", "null", "str"}
DeField(f) == IF f.t = "str" THEN Some(f.v) ELSE None

\* response.json::<VolcengineImageResponse>()
ParseResponse(resp) ==
    IF ~resp.readable THEN Err("error decoding response body")
    ELSE IF ~resp.body.json THEN Err("expected value")
    ELSE IF \E i \in 1..Len(resp.body.data) :
                \E f \in {"b64_json", "url", "revised_prompt"} :
                    ~FieldOk(resp.body.data[i][f])
    THEN Err("invalid type")
    ELSE Ok([data |-> [i \in 1..Len(resp.body.data) |->
                [b64_json |-> DeField(resp.body.data[i].b64_json),
                 url |-> DeField(resp.body.data[i].url),
                 revised_prompt |->
                     DeField(resp.body.data[i].revised_prompt)]]])

\* A slip in the closure: the revised prompt is not carried over.
ToGeneratedImage_DropsRevised(item) ==
    [b64_json |-> item.b64_json,
     url |-> item.url,
     mime_type |-> "image/png",
     revised_prompt |-> None]

\* The closure of lines 125-130.
ToGeneratedImage(item) ==
    [b64_json |-> item.b64_json,
     url |-> item.url,
     mime_type |-> "image/png",
     revised_prompt |-> item.revised_prompt]

\* payload.data.into_iter().map(..).collect()
CollectImages(data) == [i \in 1..Len(data) |-> ToGeneratedImage(data[i])]

\* A slip at lines 107-110: the body is never read.
ErrorBody_NeverRead(resp) == TextBody("Unknown error")

\* response.text().await.unwrap_or_else(|_| "Unknown error")
ErrorBody(resp) ==
    IF resp.readable THEN resp.body ELSE TextBody("Unknown error")

Fail(e) ==
    /\ pc' = "failed"
    /\ result' = Some(Err(e))

\* A slip in the match: the None variant yields an empty key.
ApiKeyOf_EmptyOnNone(cred) == Ok(cred.token)

\* The match of lines 56-64.
ApiKeyOf(cred) ==
    IF cred.variant = "Token" THEN Ok(cred.token)
    ELSE Err(ErrMsg("API key not configured for Volcengine image generation",
                    "", 0, None))

\* Lines 55-64.
GetCredentials ==
    /\ pc = "start"
    /\ \E out \in CredentialOutcomes :
        /\ credentials' = Some(out)
        /\ steps' = Append(steps, "get_credentials")
        /\ IF ~out.ok
           THEN /\ Fail(out.err[1])
                /\ UNCHANGED api_key
           ELSE LET key == ApiKeyOf(out.val[1])
                IN  IF ~key.ok
                    THEN /\ Fail(key.err[1])
                         /\ UNCHANGED api_key
                    ELSE /\ api_key' = key.val[1]
                         /\ pc' = "credentials"
                         /\ UNCHANGED result
    /\ UNCHANGED <<request, base_url, url, client, header_map, response, sent>>
    /\ UNCHANGED <<provider, kimiVars, streamVars>>

\* A slip at line 67: unwrap_or_default() in place of `?`.
BaseUrlOf_Default(out) == IF out.ok THEN out ELSE Ok(<<>>)

\* The `.await?` of line 67.
BaseUrlOf(out) == out

\* Lines 66-77.
ResolveBaseUrl ==
    /\ pc = "credentials"
    /\ \E out \in BaseUrlOutcomes :
        /\ base_url' = Some(out)
        /\ steps' = Append(steps, "resolve_base_url")
        /\ LET got == BaseUrlOf(out)
           IN  IF ~got.ok
               THEN /\ Fail(got.err[1])
                    /\ UNCHANGED url
               ELSE /\ url' = FormatUrl(got.val[1])
                    /\ pc' = "base_url"
                    /\ UNCHANGED result
    /\ UNCHANGED <<request, credentials, api_key, client, header_map,
                   response, sent>>
    /\ UNCHANGED <<provider, kimiVars, streamVars>>

\* Lines 79-82.
BuildClient ==
    /\ pc = "base_url"
    /\ \E built \in BOOLEAN :
        /\ steps' = Append(steps, "build_client")
        /\ IF ~built
           THEN /\ Fail(ErrMsg("Failed to build HTTP client", "builder error",
                               0, None))
                /\ UNCHANGED client
           ELSE /\ client' = Some([timeout |-> ClientTimeoutSecs])
                /\ pc' = "client"
                /\ UNCHANGED result
    /\ UNCHANGED <<request, credentials, api_key, base_url, url, header_map,
                   response, sent>>
    /\ UNCHANGED <<provider, kimiVars, streamVars>>

\* Lines 84-95.
BuildHeaders ==
    /\ pc = "client"
    /\ steps' = Append(steps, "build_headers")
    /\ LET hs == RequestHeaders(api_key)
       IN  IF \E k \in DOMAIN hs : ~ValidHeaderValue(hs[k])
           THEN /\ Fail(ErrMsg("Invalid header value",
                               "failed to parse header value", 0, None))
                /\ UNCHANGED header_map
           ELSE /\ header_map' = hs
                /\ pc' = "headers"
                /\ UNCHANGED result
    /\ UNCHANGED <<request, credentials, api_key, base_url, url, client,
                   response, sent>>
    /\ UNCHANGED <<provider, kimiVars, streamVars>>

\* A retry in place of line 103's `?`: the request is sent again.
AfterSendError_Retry ==
    /\ pc' = "headers"
    /\ UNCHANGED result

\* Where generate goes when send() fails.
AfterSendError ==
    Fail(ErrMsg("Volcengine image request failed", "connection error",
                0, None))

\* Lines 97-103.
Send ==
    /\ pc = "headers"
    /\ steps' = Append(steps, "send")
    /\ sent' = Append(sent, [url |-> url, headers |-> header_map,
                             json |-> VolcengineImageRequest(Model, request)])
    /\ \/ /\ AfterSendError
          /\ UNCHANGED response
       \/ \E resp \in Responses :
            /\ response' = Some(resp)
            /\ pc' = "sent"
            /\ UNCHANGED result
    /\ UNCHANGED <<request, credentials, api_key, base_url, url, client,
                   header_map>>
    /\ UNCHANGED <<provider, kimiVars, streamVars>>

\* Lines 105-115.
CheckStatus ==
    /\ pc = "sent"
    /\ steps' = Append(steps, "check_status")
    /\ IF ~is_success(response[1].status)
       THEN Fail(ErrMsg("Volcengine image generation failed", "",
                        response[1].status, Some(ErrorBody(response[1]))))
       ELSE /\ pc' = "status"
            /\ UNCHANGED result
    /\ UNCHANGED <<request, credentials, api_key, base_url, url, client,
                   header_map, response, sent>>
    /\ UNCHANGED <<provider, kimiVars, streamVars>>

\* Lines 117-133.
ParseReply ==
    /\ pc = "status"
    /\ steps' = Append(steps, "parse_reply")
    /\ LET parsed == ParseResponse(response[1])
       IN  IF ~parsed.ok
           THEN Fail(ErrMsg("Failed to parse Volcengine response",
                            parsed.err[1], 0, None))
           ELSE /\ pc' = "done"
                /\ result' = Some(Ok(CollectImages(parsed.val[1].data)))
    /\ UNCHANGED <<request, credentials, api_key, base_url, url, client,
                   header_map, response, sent>>
    /\ UNCHANGED <<provider, kimiVars, streamVars>>

\* ------------------------------------------------------------------------
\* Initial values of the variables a specification leaves idle
\* ------------------------------------------------------------------------
CredentialNames == {"KIMI_API_KEY", "MOONSHOT_API_KEY"}

KimiConfigs ==
    {[id |-> "kimi_coding", api_key_name |-> n] : n \in CredentialNames}

\* The unit struct OpenAiProtocol: no fields.
OpenAiProtocol == <<>>

\* KimiCodingProvider::new
NewKimiCodingProvider(config) ==
    [base |-> [config |-> config], protocol |-> OpenAiProtocol]

Streams == {1, 2}

\* StreamParseState::default()
FreshState == [buffer |-> <<>>, terminal |-> FALSE]

GenIdle ==
    /\ pc = "idle"
    /\ request = CHOOSE r \in Requests : TRUE
    /\ credentials = None
    /\ api_key = <<>>
    /\ base_url = None
    /\ url = <<>>
    /\ client = None
    /\ header_map = <<>>
    /\ response = None
    /\ result = None
    /\ steps = <<>>
    /\ sent = <<>>

KimiIdle ==
    /\ store = [n \in CredentialNames |-> None]
    /\ lookup = None
    /\ creds = None
    /\ headers0 = <<>>
    /\ headers = <<>>
    /\ hdrResult = None

StreamIdle ==
    /\ sstate = [s \in Streams |-> FreshState]
    /\ sevents = [s \in Streams |-> <<>>]
    /\ serrs = [s \in Streams |-> <<>>]
    /\ fed = <<>>
    /\ payload = <<>>
    /\ cut = 0

ProviderIdle ==
    provider = NewKimiCodingProvider(CHOOSE c \in KimiConfigs : TRUE)

\* ------------------------------------------------------------------------
\* Spec: one call of generate
\* ------------------------------------------------------------------------
Init ==
    /\ pc = "start"
    /\ request \in Requests
    /\ credentials = None
    /\ api_key = <<>>
    /\ base_url = None
    /\ url = <<>>
    /\ client = None
    /\ header_map = <<>>
    /\ response = None
    /\ result = None
    /\ steps = <<>>
    /\ sent = <<>>
    /\ ProviderIdle
    /\ KimiIdle
    /\ StreamIdle

Next ==
    \/ GetCredentials
    \/ ResolveBaseUrl
    \/ BuildClient
    \/ BuildHeaders
    \/ Send
    \/ CheckStatus
    \/ ParseReply

Spec == Init /\ [][Next]_vars

\* ------------------------------------------------------------------------
\* Properties of generate
\* ------------------------------------------------------------------------
Ran(step) == \E i \in 1..Len(steps) : steps[i] = step

Times(step) == Cardinality({i \in 1..Len(steps) : steps[i] = step})

Pos(step) == CHOOSE i \in 1..Len(steps) : steps[i] = step

NoCredential ==
    /\ credentials # None
    /\ credentials[1].ok
    /\ credentials[1].val[1].variant = "None"

\* C1: when credential lookup yields ProviderCredentials::None, generate
\* returns the "API key not configured" error and nothing but the lookup
\* has run: no base-URL resolution, no client, no request on the wire.
C1_NoCredentialFailsBeforeNetwork ==
    NoCredential =>
        /\ pc = "failed"
        /\ result = Some(Err(ErrMsg(
               "API key not configured for Volcengine image generation",
               "", 0, None)))
        /\ steps = <<"get_credentials">>
        /\ base_url = None
        /\ client = None
        /\ sent = <<>>

C1_Witness == NoCredential /\ pc = "failed"

\* What the reply's field f of item i must become in the result.
Expected(f) == IF f.t = "str" THEN <<f.v>> ELSE <<>>

\* C3: a successful call returns one image per item of the reply's data
\* list, in order, with the item's b64_json, url and revised_prompt (absent
\* or null fields as None) and mime_type "image/png".
C3_ImagesMirrorReply ==
    pc = "done" =>
        /\ result # None
        /\ result[1].ok
        /\ LET images == result[1].val[1]
               data == response[1].body.data
           IN  /\ Len(images) = Len(data)
               /\ \A i \in 1..Len(data) :
                    /\ images[i].b64_json = Expected(data[i].b64_json)
                    /\ images[i].url = Expected(data[i].url)
                    /\ images[i].revised_prompt =
                           Expected(data[i].revised_prompt)
                    /\ images[i].mime_type = "image/png"

C3_Witness ==
    /\ pc = "done"
    /\ Len(response[1].body.data) = 2
    /\ response[1].body.data[1] # response[1].body.data[2]
    /\ response[1].body.data[1].revised_prompt.t = "str"

NonSuccessChecked ==
    /\ Ran("check_status")
    /\ response[1].status < 200 \/ response[1].status > 299

\* C8 as stated: a non-success status always yields an error carrying the
\* status and the raw response body.
C8_Original ==
    NonSuccessChecked =>
        /\ pc = "failed"
        /\ ~result[1].ok
        /\ result[1].err[1].status = response[1].status
        /\ result[1].err[1].body = <<response[1].body>>
        /\ ~Ran("parse_reply")

\* C8 amended: a non-success status yields an error, never Ok, carrying the
\* status and the raw response body, or the text "Unknown error" in place of
\* a body that could not be read; the reply is never parsed into images.
C8_UpstreamErrorCarriesStatusAndBody ==
    NonSuccessChecked =>
        /\ pc = "failed"
        /\ ~result[1].ok
        /\ result[1].err[1].msg = "Volcengine image generation failed"
        /\ result[1].err[1].status = response[1].status
        /\ result[1].err[1].body =
               IF response[1].readable
               THEN <<response[1].body>>
               ELSE <<[json |-> FALSE, text |-> "Unknown error",
                       data |-> <<>>]>>
        /\ ~Ran("parse_reply")

C8_Witness ==
    /\ NonSuccessChecked
    /\ response[1].readable
    /\ response[1].body.json
    /\ pc = "failed"

CredentialOk ==
    /\ credentials # None
    /\ credentials[1].ok
    /\ credentials[1].val[1].variant = "Token"

BaseUrlOk == base_url # None /\ base_url[1].ok

\* C9 as stated: the base URL is resolved before the credential is.
C9_Original ==
    (Ran("get_credentials") /\ Ran("resolve_base_url")) =>
        Pos("resolve_base_url") < Pos("get_credentials")

\* C9 amended: in generate the credential is resolved first and the base URL
\* second, the base URL only after the credential resolved to a token, and
\* the request is built and sent only after both succeeded.
C9_CredentialThenEndpointThenSend ==
    /\ Ran("resolve_base_url") =>
           /\ CredentialOk
           /\ Pos("get_credentials") < Pos("resolve_base_url")
    /\ \A later \in {"build_client", "build_headers", "send"} :
           Ran(later) =>
               /\ CredentialOk
               /\ BaseUrlOk
               /\ Pos("resolve_base_url") < Pos(later)
    /\ sent # <<>> => Ran("send")

C9_Witness == sent # <<>> /\ CredentialOk /\ BaseUrlOk

StepOrder ==
    <<"get_credentials", "resolve_base_url", "build_client", "build_headers",
      "send", "check_status", "parse_reply">>

\* The step an error String comes from.
StepOfError(e) ==
    CASE e.msg \in {"credential store error",
                    "API key not configured for Volcengine image generation"}
             -> "get_credentials"
      [] e.msg = "no usable base URL" -> "resolve_base_url"
      [] e.msg = "Failed to build HTTP client" -> "build_client"
      [] e.msg = "Invalid header value" -> "build_headers"
      [] e.msg = "Volcengine image request failed" -> "send"
      [] e.msg = "Volcengine image generation failed" -> "check_status"
      [] e.msg = "Failed to parse Volcengine response" -> "parse_reply"

\* C10: the steps of one call run in the code's order, each at most once;
\* a failed call returns the error of the last step that ran (so no step
\* ran after the failing one); at most one request goes on the wire.
C10_FailFastNoRetry ==
    /\ Len(steps) <= Len(StepOrder)
    /\ \A i \in 1..Len(steps) : steps[i] = StepOrder[i]
    /\ Len(sent) = Times("send")
    /\ Len(sent) <= 1
    /\ pc = "failed" =>
           /\ result # None
           /\ ~result[1].ok
           /\ steps # <<>>
           /\ StepOfError(result[1].err[1]) = steps[Len(steps)]
    /\ pc \in {"done", "failed"} => ~ENABLED Next

C10_Witness ==
    /\ pc = "failed"
    /\ Ran("send")
    /\ response = None

\* ------------------------------------------------------------------------
\* KimiCodingProvider::get_credentials and add_provider_headers
\* ------------------------------------------------------------------------
SecretValues == {"k1", "k2"}

Stores == [CredentialNames -> {None} \cup {Some(v) : v \in SecretValues}]

\* What ApiKeyManager::get_setting(name) may return: the stored Option, or
\* the store's own error.
GetSettingOutcomes(st, name) ==
    {Ok(st[name]), Err(ErrMsg("settings store error", name, 0, None))}

\* A slip at line 62: unwrap_or_default() in place of ok_or_else(..)?.
get_credentials_DefaultsWhenAbsent(self, out) ==
    IF ~out.ok THEN Err(out.err[1])
    ELSE IF out.val[1] = None THEN Ok([variant |-> "ApiKey", token |-> ""])
    ELSE Ok([variant |-> "ApiKey", token |-> out.val[1][1]])

\* Lines 58-65, given what get_setting returned.
get_credentials(self, out) ==
    IF ~out.ok THEN Err(out.err[1])
    ELSE IF out.val[1] = None
    THEN Err(ErrMsg("API key not found", self.base.config.api_key_name,
                    0, None))
    ELSE Ok([variant |-> "ApiKey", token |-> out.val[1][1]])

KimiGetCredentials ==
    /\ \E out \in GetSettingOutcomes(store, provider.base.config.api_key_name) :
        /\ lookup' = Some(out)
        /\ creds' = Some(get_credentials(provider, out))
    /\ UNCHANGED <<provider, store, headers0, headers, hdrResult>>
    /\ UNCHANGED <<genVars, streamVars>>

HeaderNames == {"Content-Type", "User-Agent", "X-Extra"}
HeaderValues == {"application/json", "curl/8.0", "KimiCLI/1.3"}

\* Header maps the shared strategy may have produced.
HeaderMaps == UNION {[K -> HeaderValues] : K \in SUBSET HeaderNames}

\* entry(k).or_insert(v) in place of insert(k, v): an existing key wins.
HashMapInsert_KeepsExisting(h, k, v) ==
    [x \in DOMAIN h \cup {k} |-> IF x \in DOMAIN h THEN h[x] ELSE v]

\* HashMap::insert
HashMapInsert(h, k, v) ==
    [x \in DOMAIN h \cup {k} |-> IF x = k THEN v ELSE h[x]]

\* Lines 67-75.
KimiAddProviderHeaders ==
    /\ headers0' = headers
    /\ headers' = HashMapInsert(headers, "User-Agent", "KimiCLI/1.3")
    /\ hdrResult' = Some(Ok("unit"))
    /\ UNCHANGED <<provider, store, lookup, creds>>
    /\ UNCHANGED <<genVars, streamVars>>

InitKimi ==
    /\ provider \in {NewKimiCodingProvider(c) : c \in KimiConfigs}
    /\ store \in Stores
    /\ lookup = None
    /\ creds = None
    /\ headers \in HeaderMaps
    /\ headers0 = headers
    /\ hdrResult = None
    /\ GenIdle
    /\ StreamIdle

NextKimi ==
    \/ KimiGetCredentials
    \/ KimiAddProviderHeaders

SpecKimi == InitKimi /\ [][NextKimi]_vars

Absent_in_store == store[provider.base.config.api_key_name] = None

\* C2 as stated: with the named credential absent from the store,
\* get_credentials returns the credential-missing error and never the
\* store's error; a success carries the stored value as a key.
C2_Original ==
    creds # None =>
        /\ Absent_in_store =>
               /\ ~creds[1].ok
               /\ creds[1].err[1].msg = "API key not found"
        /\ creds[1].ok =>
               /\ creds[1].val[1].variant = "ApiKey"
               /\ <<creds[1].val[1].token>> =
                      store[provider.base.config.api_key_name]

\* C2 amended: when the store lookup itself succeeds and the named
\* credential is absent, get_credentials returns the "API key '<name>' not
\* found" error naming that credential; when the lookup fails, the store's
\* error is returned unchanged; a success carries the stored value as a key
\* credential and never the none variant.
C2_MissingCredentialOrStoreError ==
    creds # None =>
        /\ (lookup[1].ok /\ Absent_in_store) =>
               /\ ~creds[1].ok
               /\ creds[1].err[1].msg = "API key not found"
               /\ creds[1].err[1].cause = provider.base.config.api_key_name
        /\ ~lookup[1].ok =>
               /\ ~creds[1].ok
               /\ creds[1].err = lookup[1].err
        /\ creds[1].ok =>
               /\ lookup[1].ok
               /\ creds[1].val[1].variant = "ApiKey"
               /\ <<creds[1].val[1].token>> =
                      store[provider.base.config.api_key_name]

C2_Witness ==
    /\ creds # None
    /\ lookup[1].ok
    /\ Absent_in_store
    /\ ~creds[1].ok

\* C4: after add_provider_headers the map holds "User-Agent" =
\* "KimiCLI/1.3" whatever it held before, every other key is as before, no
\* key is lost or added besides, and the call returned Ok.
C4_UserAgentOverrideWins ==
    hdrResult # None =>
        /\ hdrResult[1].ok
        /\ DOMAIN headers = DOMAIN headers0 \cup {"User-Agent"}
        /\ headers["User-Agent"] = "KimiCLI/1.3"
        /\ \A k \in DOMAIN headers0 \ {"User-Agent"} : headers[k] = headers0[k]

C4_Witness ==
    /\ hdrResult # None
    /\ "User-Agent" \in DOMAIN headers0
    /\ headers0["User-Agent"] = "curl/8.0"
    /\ "X-Extra" \in DOMAIN headers0


\* ------------------------------------------------------------------------
\* Stream parsing: OpenAiProtocol::parse_stream_event and the provider's
\* pass-through to it
\* ------------------------------------------------------------------------
\* Wire characters: "a" content, "E" the in-band error mark, "D" the
\* end-of-stream sentinel, "X" text no frame may hold, "\n" the end of a
\* frame.
FrameEnd == "\n"

\* Chunks the transport may deliver.
Chunks == {<<"a">>, <<"\n">>, <<"D">>, <<"D", "\n">>, <<"E", "a">>,
           <<"a", "\n", "D">>, <<"X", "\n">>}

HasFrame(buf) == \E i \in 1..Len(buf) : buf[i] = FrameEnd

FirstEnd(buf) == CHOOSE i \in 1..Len(buf) :
    /\ buf[i] = FrameEnd
    /\ \A j \in 1..(i - 1) : buf[j] # FrameEnd

\* The event one complete frame stands for.
FrameEvent(frame) ==
    IF frame = <<>> THEN None
    ELSE IF frame = <<"D">> THEN Some([kind |-> "done", data |-> <<>>])
    ELSE IF frame[1] = "E" THEN Some([kind |-> "error", data |-> Tail(frame)])
    ELSE Some([kind |-> "content", data |-> frame])

\* A frame that cannot be decoded.
Malformed(frame) == \E i \in 1..Len(frame) : frame[i] = "X"

\* ProtocolStreamParser::parse_stream_event(ctx, state): the new state and
\* the Result: Ok with the zero-or-one event yielded, or Err (err # None)
\* for a frame that cannot be decoded.
parse_stream_event(chunk, state) ==
    IF state.terminal THEN [state |-> state, event |-> None, err |-> None]
    ELSE LET buf == state.buffer \o chunk
         IN  IF ~HasFrame(buf)
             THEN [state |-> [state EXCEPT !.buffer = buf], event |-> None,
                   err |-> None]
             ELSE LET e == FirstEnd(buf)
                      frame == SubSeq(buf, 1, e - 1)
                      rest == SubSeq(buf, e + 1, Len(buf))
                  IN  IF frame = <<"D">>
                      THEN [state |-> [buffer |-> <<>>, terminal |-> TRUE],
                            event |-> FrameEvent(frame), err |-> None]
                      ELSE IF Malformed(frame)
                      THEN [state |-> [state EXCEPT !.buffer = rest],
                            event |-> None, err |-> Some("malformed frame")]
                      ELSE [state |-> [state EXCEPT !.buffer = rest],
                            event |-> FrameEvent(frame), err |-> None]

\* The pass-through parsing against a state of its own making: the
\* caller's state is never read or written.
parse_protocol_stream_event_FreshState(self, chunk, state) ==
    LET r == parse_stream_event(chunk, FreshState)
    IN  [self |-> self, state |-> state, event |-> r.event, err |-> r.err]

\* The pass-through handing on the state without its buffered bytes.
parse_protocol_stream_event_DropsBuffer(self, chunk, state) ==
    LET r == parse_stream_event(chunk, [state EXCEPT !.buffer = <<>>])
    IN  [self |-> self, state |-> r.state, event |-> r.event, err |-> r.err]

\* The provider keeping the parse state itself, in place of the caller's.
parse_protocol_stream_event_HiddenState(self, chunk, state) ==
    LET held == IF self.protocol = <<>> THEN state ELSE self.protocol[1]
        r == parse_stream_event(chunk, held)
    IN  [self |-> [self EXCEPT !.protocol = <<r.state>>],
         state |-> r.state, event |-> r.event, err |-> r.err]

\* Lines 88-94: &self is unchanged, state is whatever the strategy left in
\* it, and the strategy's Result (Ok(event) or Err) is returned as it is.
parse_protocol_stream_event(self, chunk, state) ==
    LET r == parse_stream_event(chunk, state)
    IN  [self |-> self, state |-> r.state, event |-> r.event, err |-> r.err]

\* One parse call by the driver of stream s.
Feed(s, chunk) ==
    LET r == parse_protocol_stream_event(provider, chunk, sstate[s])
    IN  /\ provider' = r.self
        /\ sstate' = [sstate EXCEPT ![s] = r.state]
        /\ sevents' = [sevents EXCEPT ![s] = @ \o r.event]
        /\ serrs' = [serrs EXCEPT ![s] = @ \o r.err]
        /\ fed' = Append(fed, [stream |-> s, chunk |-> chunk])

FeedChunk ==
    /\ Len(fed) < MaxFed
    /\ \E s \in Streams, chunk \in Chunks : Feed(s, chunk)
    /\ UNCHANGED <<payload, cut>>
    /\ UNCHANGED <<genVars, kimiVars>>

InitStream ==
    /\ ProviderIdle
    /\ StreamIdle
    /\ GenIdle
    /\ KimiIdle

NextStream == FeedChunk

SpecStream == InitStream /\ [][NextStream]_vars

\* The chunks fed to stream s, in order.
RECURSIVE FedTo(_, _)
FedTo(s, log) ==
    IF log = <<>> THEN <<>>
    ELSE (IF log[1].stream = s THEN <<log[1].chunk>> ELSE <<>>)
         \o FedTo(s, Tail(log))

IsDone(e) == e.kind = "done"

DoneCount(es) == Cardinality({i \in 1..Len(es) : IsDone(es[i])})

\* Stream parsing alone: the state and the events after feeding `chunks`,
\* in order, to a fresh state through a provider nothing else uses.
RECURSIVE RunAlone(_, _)
RunAlone(self, chunks) ==
    IF chunks = <<>>
    THEN [state |-> FreshState, events |-> <<>>, errs |-> <<>>]
    ELSE LET before == RunAlone(self, SubSeq(chunks, 1, Len(chunks) - 1))
             r == parse_protocol_stream_event(self, chunks[Len(chunks)],
                                              before.state)
         IN  [state |-> r.state, events |-> before.events \o r.event,
              errs |-> before.errs \o r.err]

\* C5: a stream's state is terminal exactly when its end sentinel has been
\* consumed, and then exactly one terminal event has been yielded and it is
\* the last event: no parse call after it yielded anything.
C5_TerminalOnceThenSilent ==
    \A s \in Streams :
        /\ sstate[s].terminal <=> DoneCount(sevents[s]) >= 1
        /\ sstate[s].terminal =>
               /\ DoneCount(sevents[s]) = 1
               /\ IsDone(sevents[s][Len(sevents[s])])

\* A stream that went terminal and was fed two more chunks, one of them a
\* complete frame.
C5_Witness ==
    \E s \in Streams :
        LET mine == FedTo(s, fed)
        IN  /\ sstate[s].terminal
            /\ Len(mine) >= 3
            /\ RunAlone(provider, SubSeq(mine, 1, Len(mine) - 2)).state.terminal
            /\ mine[Len(mine)] = <<"D", "\n">>

\* C7: whatever the interleaving of parse calls, each stream's state and
\* events are those of parsing its own chunks alone, and the provider is
\* as constructed: it holds no stream state.
C7_StreamsDoNotInterfere ==
    /\ provider = NewKimiCodingProvider(provider.base.config)
    /\ \A s \in Streams :
           LET alone == RunAlone(NewKimiCodingProvider(provider.base.config),
                                 FedTo(s, fed))
           IN  /\ sstate[s] = alone.state
               /\ sevents[s] = alone.events
               /\ serrs[s] = alone.errs

\* Calls on stream 1, then stream 2, then stream 1 again, both streams with
\* events and stream 2 with a frame half buffered.
C7_Witness ==
    /\ Len(fed) = 4
    /\ fed[1].stream = 1 /\ fed[2].stream = 2
    /\ fed[3].stream = 1 /\ fed[4].stream = 2
    /\ sevents[1] # <<>> /\ sevents[2] # <<>>
    /\ sevents[1] # sevents[2]
    /\ sstate[2].buffer # <<>>

\* ------------------------------------------------------------------------
\* SpecSplit: one payload fed to stream 1 in two chunks and to stream 2 in
\* one
\* ------------------------------------------------------------------------
BodyChars == {"a", "E", "D", "X"}

\* One structured payload: a frame body and its end mark.
Payloads ==
    {b \o <<FrameEnd>> : b \in UNION {[1..k -> BodyChars] : k \in 0..MaxBody}}

FeedPiece ==
    /\ Len(FedTo(1, fed)) < 2
    /\ Feed(1, IF FedTo(1, fed) = <<>>
               THEN SubSeq(payload, 1, cut)
               ELSE SubSeq(payload, cut + 1, Len(payload)))
    /\ UNCHANGED <<payload, cut>>
    /\ UNCHANGED <<genVars, kimiVars>>

FeedWhole ==
    /\ FedTo(2, fed) = <<>>
    /\ Feed(2, payload)
    /\ UNCHANGED <<payload, cut>>
    /\ UNCHANGED <<genVars, kimiVars>>

InitSplit ==
    /\ ProviderIdle
    /\ sstate = [s \in Streams |-> FreshState]
    /\ sevents = [s \in Streams |-> <<>>]
    /\ serrs = [s \in Streams |-> <<>>]
    /\ fed = <<>>
    /\ payload \in Payloads
    /\ cut \in 0..Len(payload)
    /\ GenIdle
    /\ KimiIdle

NextSplit ==
    \/ FeedPiece
    \/ FeedWhole

SpecSplit == InitSplit /\ [][NextSplit]_vars

BothFed == Len(FedTo(1, fed)) = 2 /\ Len(FedTo(2, fed)) = 1

\* C6: once both pieces of a payload have been fed to one fresh state and
\* the whole payload to another, the two have yielded the same events and
\* hold the same state, wherever the payload was cut.
C6_ChunkBoundaryInvariance ==
    BothFed =>
        /\ sevents[1] = sevents[2]
        /\ serrs[1] = serrs[2]
        /\ sstate[1] = sstate[2]

\* A payload cut strictly inside, that yielded an event.
C6_Witness ==
    /\ BothFed
    /\ cut > 0 /\ cut < Len(payload) - 1
    /\ sevents[2] # <<>>
    /\ sevents[1] = sevents[2]

====
